---------------------------- MODULE Spec2Model ----------------------------
(***************************************************************************)
(* State-machine model of performance_info.py: LogStorage, DataProvider,   *)
(* LogCollector and DataAnalyzer.                                          *)
(*                                                                         *)
(* Python strings are modelled as tuples of one-character strings, so that *)
(* formatting, globbing and regular-expression search are computed and not *)
(* assumed.  The directory is flat and holds regular files only (the       *)
(* alphabet has no "/"); of the characters special inside a glob's "[..]",  *)
(* "!", "-" and "\" are not in the alphabet either.                         *)
(***************************************************************************)
EXTENDS Integers, Sequences, FiniteSets, TLC

\* ------------------------------------------------------------- bounds
MaxCount == 2       \* largest count passed to LogCollector.collect
MaxReads == 1       \* most non-terminating reads in one iteration
MaxCalls == 2       \* most calls of LogCollector.collect on one collector
MaxFiles == 2       \* most files in the directory before the program runs
MaxIndex == 1       \* largest index passed to LogStorage.open_index directly
MaxFileLen == 3     \* most characters LogStorage.append is called upon directly
MaxLines == 2       \* most lines in a file DataProvider reads
MaxValues == 10     \* most values of one key handed to DataAnalyzer

\* ------------------------------------------------- program constants
WarmupCount == 5    \* self._collect(5, stop_pattern, None)
StopAttempts == 5   \* for i in range(5)
FormatWidth == 3    \* '{}{:03}.log'

VARIABLES
    \* LogStorage and the directory
    name_prefix,    \* LogStorage._name_prefix / DataProvider._name_prefix
    out,            \* LogStorage._out: NoFile (None) or the open file's name
    handles,        \* names of the files the process holds open
    fs,             \* the directory: file name -> sequence of lines
    listing,        \* the order in which the directory lists its entries
    fs0,            \* ghost: the directory before the last constructor ran
    lastOp,         \* ghost: the LogStorage / DataProvider operation just run
    \* LogCollector
    pc,             \* position inside collect / _collect
    phase,          \* "warmup": _collect(5, .., None); "record": _collect(count, .., log_storage)
    count,          \* the count argument of collect (--run-count)
    i,              \* loop variable of _collect
    adb_call,       \* LogCollector._adb_call: 0 (None) or a process id
    procs,          \* logcat subprocesses running or referenced: pid -> "running" | "exited"
    progress_callback,  \* whether a progress callback is set
    attempt,        \* loop variable of stop_task
    stopRet,        \* where stop_task returns to: "restart" | "final"
    out_line,       \* out_line of the read loop
    reads,          \* non-terminating reads made in this iteration
    iterTrace,      \* ghost: commands and reads of the current iteration
    totalStarts,    \* ghost: start commands issued by the current _collect
    startedSinceStop,   \* ghost: an app start with no later force-stop attempt
    cbLog,          \* ghost: arguments the progress callback was called with
    created,        \* ghost: file names opened for writing, in order
    forwarded,      \* ghost: per iteration, the lines passed to append
    appendClosed,   \* ghost: append was called while no file was open
    exitCause,      \* ghost: why the read loop was last left
    stopResults,    \* ghost: per attempt of the current stop_task, whether it succeeded
    raisedBy,       \* ghost: the call whose exception left collect
    calls,          \* number of collect calls made
    warmup,         \* ghost: the collector as the warm-up _collect returned
    written,        \* ghost: files created, removed or changed since collect was called
    \* DataProvider
    dp_data,        \* DataProvider._data
    dp_raised,      \* whether the last collect() raised
    dp_prev,        \* ghost: _data after the previous completed collect()
    \* DataAnalyzer
    an_input,       \* data_provider.data() handed to analyze
    report          \* DataAnalyzer._report: one row per key

storageVars == <<name_prefix, out, handles, fs, listing, fs0, lastOp>>
collectorVars == <<pc, phase, count, i, adb_call, procs, progress_callback,
                   attempt, stopRet, out_line, reads, iterTrace, totalStarts,
                   startedSinceStop, cbLog, created, forwarded,
                   appendClosed, exitCause, stopResults, raisedBy, calls, warmup, written>>
providerVars == <<dp_data, dp_raised, dp_prev>>
analyzerVars == <<an_input, report>>
vars == <<storageVars, collectorVars, providerVars, analyzerVars>>

\* ------------------------------------------------------------ strings
NoFile == <<>>              \* None as the value of _out (no file name is empty)
NoneLine == <<"<None>">>    \* None as the value of out_line
EmptyStr == <<>>            \* ''

StartsWith(s, p) ==
    /\ Len(p) <= Len(s)
    /\ \A n \in 1..Len(p) : s[n] = p[n]

\* pattern.search(line) for a pattern without metacharacters: substring search
Contains(s, p) ==
    \E b \in 0..(Len(s) - Len(p)) : \A n \in 1..Len(p) : s[b + n] = p[n]

DigitChar(d) == <<"0", "1", "2", "3", "4", "5", "6", "7", "8", "9">>[d + 1]

RECURSIVE Digits(_)
Digits(n) == IF n < 10 THEN <<DigitChar(n)>>
             ELSE Digits(n \div 10) \o <<DigitChar(n % 10)>>

RECURSIVE ZeroPad(_, _)
ZeroPad(s, w) == IF Len(s) >= w THEN s ELSE ZeroPad(<<"0">> \o s, w)

\* '{}{:03}.log'.format(self._name_prefix, index)
FileName(prefix, index) ==
    prefix \o ZeroPad(Digits(index), FormatWidth) \o <<".", "l", "o", "g">>

\* fnmatch.translate: the position of the "]" that closes the "[" at pat[1],
\* or 0 when there is none; a "]" right after the "[" does not close it
ClassEnd(pat) ==
    LET ends == {j \in 3..Len(pat) : pat[j] = "]"}
    IN  IF ends = {} THEN 0 ELSE CHOOSE j \in ends : \A k \in ends : j <= k

\* fnmatch.fnmatch(name, pat): "*" is any string, "?" any character,
\* "[seq]" any character of seq, an unclosed "[" is itself
RECURSIVE FnMatch(_, _)
FnMatch(name, pat) ==
    IF pat = <<>> THEN name = <<>>
    ELSE IF Head(pat) = "*"
         THEN FnMatch(name, Tail(pat))
              \/ (name # <<>> /\ FnMatch(Tail(name), pat))
    ELSE IF Head(pat) = "[" /\ ClassEnd(pat) # 0
         THEN /\ name # <<>>
              /\ \E j \in 2..(ClassEnd(pat) - 1) : pat[j] = Head(name)
              /\ FnMatch(Tail(name), SubSeq(pat, ClassEnd(pat) + 1, Len(pat)))
         ELSE /\ name # <<>>
              /\ (Head(pat) = "?" \/ Head(pat) = Head(name))
              /\ FnMatch(Tail(name), Tail(pat))

IsHidden(s) == s # <<>> /\ s[1] = "."

\* glob.glob('{}*'.format(prefix)) in a flat directory: the entries that
\* fnmatch the pattern, without the hidden ones unless the pattern is hidden
Glob(dir, prefix) ==
    LET pat == prefix \o <<"*">>
    IN  {f \in dir : /\ (IsHidden(pat) \/ ~IsHidden(f))
                     /\ FnMatch(f, pat)}

\* The files that exist in only one of two directories or differ in content
Changed(d1, d2) ==
    {f \in (DOMAIN d1) \cup (DOMAIN d2) :
        \/ f \notin DOMAIN d1
        \/ f \notin DOMAIN d2
        \/ d1[f] # d2[f]}

Restrict(f, S) == [x \in S |-> f[x]]
Put(f, x, v) == [y \in (DOMAIN f) \cup {x} |-> IF y = x THEN v ELSE f[y]]


\* ------------------------------------------------------------ LogStorage
\* A LogStorage together with the directory: [out, handles, fs]
Storage == [out |-> out, handles |-> handles, fs |-> fs]

\* LogStorage.__init__: _out = None, then os.remove every glob match
LogStorage_init(st, prefix) ==
    [out |-> NoFile,
     handles |-> st.handles,
     fs |-> Restrict(st.fs, (DOMAIN st.fs) \ Glob(DOMAIN st.fs, prefix))]

\* Mutant of close: the file is never closed
close_keeps_open(st) == st

\* LogStorage.close
close(st) ==
    IF st.out # NoFile
    THEN [st EXCEPT !.handles = @ \ {st.out}, !.out = NoFile]
    ELSE st

\* Mutant of open_index: the index is left out of the file name
open_index_no_index(st, prefix, index) ==
    LET file_name == FileName(prefix, 0)
        s1 == close(st)
    IN  [out |-> file_name,
         handles |-> s1.handles \cup {file_name},
         fs |-> Put(s1.fs, file_name, <<>>)]

\* LogStorage.open_index: close(), then open(file_name, 'w')
open_index(st, prefix, index) ==
    LET file_name == FileName(prefix, index)
        s1 == close(st)
    IN  [out |-> file_name,
         handles |-> s1.handles \cup {file_name},
         fs |-> Put(s1.fs, file_name, <<>>)]

\* LogStorage.append: self._out.write(line); the caller checks that a file
\* is open and that line is a string (write raises otherwise)
append(st, line) ==
    [st EXCEPT !.fs = [@ EXCEPT ![st.out] = @ \o line]]

\* ---------------------------------------------------------- LogCollector
DefaultPrefix == <<"l", "_">>       \* --file-prefix
stop_pattern == <<"S">>             \* --search, a pattern without metacharacters
LogLines == {<<"a", "\n">>, <<"a", "S", "\n">>}    \* lines logcat prints
\* collect(count, ...) takes any count; main passes --run-count, at least 2
Counts == 0..MaxCount

Running(pid) == pid # 0 /\ procs[pid] = "running"
Live == {p \in DOMAIN procs : procs[p] = "running"}

\* A subprocess that has exited and that nothing refers to is forgotten
Reap(ps, keep) ==
    Restrict(ps, {p \in DOMAIN ps : ps[p] = "running" \/ p = keep})

\* The process id Popen gives the next subprocess
NewPid(ps) == CHOOSE p \in 1..(Cardinality(DOMAIN ps) + 1) : p \notin DOMAIN ps

\* Mutant of _stop_logcat: the subprocess is forgotten, not terminated
stop_logcat_no_terminate(st) == [adb_call |-> 0, procs |-> st.procs]

\* LogCollector._stop_logcat: terminate() and forget the subprocess
stop_logcat(st) ==
    IF st.adb_call # 0
    THEN [adb_call |-> 0,
          procs |-> Reap([st.procs EXCEPT ![st.adb_call] = "exited"], 0)]
    ELSE st

\* LogCollector._start_logcat when Popen succeeds
start_logcat(st) ==
    LET s1 == stop_logcat(st)
        pid == NewPid(s1.procs)
    IN  [adb_call |-> pid, procs |-> Put(s1.procs, pid, "running")]

Logcat == [adb_call |-> adb_call, procs |-> procs]

UseStorage == phase = "record"      \* log_storage is None in the warm-up
\* Mutant of Limit: the warm-up runs count iterations as well
Limit_count_only == count

\* range(count) of the running _collect
Limit == IF phase = "warmup" THEN WarmupCount ELSE count


\* The ghost trace of an iteration: runs of one event are noted once
Note(trace, event) ==
    IF trace # <<>> /\ trace[Len(trace)] = event THEN trace
    ELSE Append(trace, event)

NoWarmup == [iterations |-> 0, logcat |-> 0, started |-> FALSE, live |-> {}]

\* Variables of the other components, which the collector leaves alone
CollectorFrame == UNCHANGED <<name_prefix, listing, providerVars, analyzerVars>>

\* LogCollector.set_progress_callback
SetProgressCallback ==
    /\ pc = "main"
    /\ ~progress_callback
    /\ progress_callback' = TRUE
    /\ UNCHANGED <<storageVars, providerVars, analyzerVars, pc, phase, count, i,
                   adb_call, procs, attempt, stopRet, out_line, reads,
                   iterTrace, totalStarts, startedSinceStop, cbLog, created,
                   forwarded, appendClosed, exitCause, stopResults, raisedBy,
                   calls, warmup, written>>

\* main: LogStorage(args.file_prefix), the argument of collect
NewLogStorage ==
    /\ pc = "main"
    /\ LET st == LogStorage_init(Storage, name_prefix)
       IN  /\ out' = st.out
           /\ handles' = st.handles
           /\ fs' = st.fs
    /\ fs0' = fs
    /\ lastOp' = "LogStorage"
    /\ pc' = "ready"
    /\ UNCHANGED <<name_prefix, listing, providerVars, analyzerVars, phase,
                   count, i, adb_call, procs, progress_callback, attempt,
                   stopRet, out_line, reads, iterTrace, totalStarts,
                   startedSinceStop, cbLog, created, forwarded, appendClosed,
                   exitCause, stopResults, raisedBy, calls, warmup, written>>

\* LogCollector.collect(count, stop_pattern, log_storage): entry, up to the
\* first _collect(5, stop_pattern, None).  A caller that caught an exception
\* may call collect again on the same collector and storage.
Collect ==
    /\ pc \in {"ready", "raised", "done"}
    /\ calls < MaxCalls
    /\ calls' = calls + 1
    /\ phase' = "warmup"
    /\ pc' = "start_logcat"
    /\ i' = 0
    /\ attempt' = 0
    /\ stopRet' = "restart"
    /\ out_line' = NoneLine
    /\ reads' = 0
    /\ iterTrace' = <<>>
    /\ totalStarts' = 0
    /\ cbLog' = <<>>
    /\ created' = <<>>
    /\ forwarded' = <<>>
    /\ exitCause' = "none"
    /\ stopResults' = <<>>
    /\ raisedBy' = "none"
    /\ lastOp' = "collect"
    /\ warmup' = NoWarmup
    /\ written' = {}
    /\ UNCHANGED <<name_prefix, out, handles, fs, listing, fs0, providerVars,
                   analyzerVars, count, adb_call, procs, progress_callback,
                   startedSinceStop, appendClosed>>

\* _collect: self._start_logcat(), where Popen succeeds or raises OSError
StartLogcat ==
    /\ pc = "start_logcat"
    /\ \E ok \in BOOLEAN :
          IF ok
          THEN /\ adb_call' = start_logcat(Logcat).adb_call
               /\ procs' = start_logcat(Logcat).procs
               /\ pc' = "loop"
               /\ raisedBy' = raisedBy
          ELSE /\ adb_call' = stop_logcat(Logcat).adb_call
               /\ procs' = stop_logcat(Logcat).procs
               /\ pc' = "raised"
               /\ raisedBy' = "Popen"
    /\ i' = 0
    /\ totalStarts' = 0
    /\ UNCHANGED <<storageVars, providerVars, analyzerVars, phase, count,
                   progress_callback, attempt, stopRet, out_line, reads,
                   iterTrace, startedSinceStop, cbLog, created, forwarded,
                   appendClosed, exitCause, stopResults, calls, warmup, written>>

\* _collect: for i in range(count), the progress callback, and the call of
\* restart_task up to the first force-stop; after the loop, _stop_logcat()
\* and the call of stop_task
LoopHead ==
    /\ pc = "loop"
    /\ IF i < Limit
       THEN /\ IF progress_callback /\ UseStorage
               THEN /\ cbLog' = Append(cbLog, i)
                    /\ iterTrace' = <<"progress">>
               ELSE /\ cbLog' = cbLog
                    /\ iterTrace' = <<>>
            /\ stopRet' = "restart"
            /\ UNCHANGED <<adb_call, procs>>
       ELSE /\ adb_call' = stop_logcat(Logcat).adb_call
            /\ procs' = stop_logcat(Logcat).procs
            /\ stopRet' = "final"
            /\ iterTrace' = <<>>
            /\ cbLog' = cbLog
    /\ attempt' = 0
    /\ stopResults' = <<>>
    /\ exitCause' = "none"
    /\ out_line' = NoneLine      \* dead until the read loop assigns it again
    /\ reads' = 0
    /\ pc' = "stop_task"
    /\ UNCHANGED <<storageVars, providerVars, analyzerVars, phase, count, i,
                   progress_callback, totalStarts,
                   startedSinceStop, created, forwarded, appendClosed,
                   raisedBy, calls, warmup, written>>


\* What check_call can do in stop_task: return 0, raise CalledProcessError
\* (a non-zero exit status) or raise OSError (adb cannot be run)
CallOutcomes == {"ok", "CalledProcessError", "OSError"}

\* stop_task: "except Exception" catches both
Caught(exc) == exc \in {"CalledProcessError", "OSError"}

\* Mutant of StopTaskDone: no break after a successful force-stop
StopTaskDone_no_break(r, n) == n + 1 = StopAttempts

\* stop_task: the loop is left by break on success or when range(5) is used up
StopTaskDone(r, n) == r = "ok" \/ n + 1 = StopAttempts

\* Mutant of AfterStop: start_task does not clear the device log
AfterStop_no_clean == IF stopRet = "restart" THEN "start_task" ELSE "return"

\* restart_task: after stop_task comes start_task, which begins with
\* _clean_logcat; at the end of _collect, stop_task is the last call
AfterStop == IF stopRet = "restart" THEN "clean_logcat" ELSE "return"

\* stop_task: one pass of "for i in range(5)"
StopAttempt ==
    /\ pc = "stop_task"
    /\ attempt < StopAttempts
    /\ \E r \in CallOutcomes :
          /\ stopResults' = Append(stopResults, r = "ok")
          /\ IF r # "ok" /\ ~Caught(r)
             THEN /\ pc' = "raised"
                  /\ raisedBy' = "stop_task"
                  /\ attempt' = 0
             ELSE /\ raisedBy' = raisedBy
                  /\ IF StopTaskDone(r, attempt)
                     THEN /\ pc' = AfterStop
                          /\ attempt' = 0   \* the loop variable dies with the call
                     ELSE /\ pc' = "stop_task"
                          /\ attempt' = attempt + 1
    /\ iterTrace' = Note(iterTrace, "force-stop")
    /\ startedSinceStop' = FALSE
    /\ CollectorFrame
    /\ UNCHANGED <<out, handles, fs, fs0, lastOp, phase, count, i, adb_call,
                   procs, progress_callback, stopRet, out_line, reads,
                   totalStarts, cbLog, created, forwarded, appendClosed,
                   exitCause, calls, warmup, written>>

\* start_task: self._clean_logcat(), whose check_call returns or raises
CleanLogcat ==
    /\ pc = "clean_logcat"
    /\ \E ok \in BOOLEAN :
          IF ok
          THEN /\ pc' = "start_task"
               /\ raisedBy' = raisedBy
          ELSE /\ pc' = "raised"
               /\ raisedBy' = "_clean_logcat"
    /\ iterTrace' = Append(iterTrace, "logcat -c")
    /\ CollectorFrame
    /\ UNCHANGED <<out, handles, fs, fs0, lastOp, phase, count, i, adb_call,
                   procs, progress_callback, attempt, stopRet, out_line,
                   reads, totalStarts, startedSinceStop, cbLog, created,
                   forwarded, appendClosed, exitCause, stopResults, calls,
                   warmup, written>>

\* start_task: the start command, whose check_call returns or raises; then,
\* back in _collect, log_storage.open_index(i) and the top of the read loop
StartApp ==
    /\ pc = "start_task"
    /\ iterTrace' = Append(iterTrace, "am start")
    /\ \E ok \in BOOLEAN :
          IF ok
          THEN /\ pc' = "read"
               /\ raisedBy' = raisedBy
               /\ totalStarts' = totalStarts + 1
               /\ startedSinceStop' = TRUE
               /\ IF UseStorage
                  THEN LET st == open_index(Storage, name_prefix, i)
                       IN  /\ out' = st.out
                           /\ handles' = st.handles
                           /\ fs' = st.fs
                           /\ created' = Append(created, st.out)
                           /\ forwarded' = Append(forwarded, <<>>)
                  ELSE UNCHANGED <<out, handles, fs, created, forwarded>>
          ELSE /\ pc' = "raised"
               /\ raisedBy' = "start_task"
               /\ UNCHANGED <<totalStarts, startedSinceStop, out, handles, fs,
                              created, forwarded>>
    /\ out_line' = NoneLine
    /\ reads' = 0
    /\ written' = written \cup Changed(fs, fs')
    /\ CollectorFrame
    /\ UNCHANGED <<fs0, lastOp, phase, count, i, adb_call, procs,
                   progress_callback, attempt, stopRet, cbLog, appendClosed,
                   exitCause, stopResults, calls, warmup>>

\* What readline().decode() can yield: a line (the subprocess runs, or has
\* exited with lines left in the pipe), '' (end of file), or an exception
\* (undecodable bytes), which leaves out_line = None
ReadOutcomes == LogLines \cup {EmptyStr, NoneLine}

Falsy(line) == line \in {EmptyStr, NoneLine}

\* One pass of the "while True" loop of _collect
ReadLine(line) ==
    /\ pc = "read"
    /\ out_line' = line
    /\ iterTrace' = Note(iterTrace, "readline")
    /\ IF Falsy(line) /\ procs[adb_call] = "exited"
       THEN \* poll() is not None: break, close
            /\ exitCause' = "eof"
            /\ pc' = "loop"
            /\ i' = i + 1
            /\ reads' = reads
            /\ IF UseStorage
               THEN /\ out' = close(Storage).out
                    /\ handles' = close(Storage).handles
               ELSE UNCHANGED <<out, handles>>
            /\ UNCHANGED <<fs, forwarded, appendClosed, raisedBy>>
       ELSE IF UseStorage /\ (out = NoFile \/ line = NoneLine)
       THEN \* log_storage.append raises: None has no write / write(None)
            /\ exitCause' = "exception"
            /\ pc' = "raised"
            /\ raisedBy' = "append"
            /\ appendClosed' = (appendClosed \/ out = NoFile)
            /\ UNCHANGED <<i, reads, out, handles, fs, forwarded>>
       ELSE /\ IF UseStorage
               THEN /\ fs' = append(Storage, line).fs
                    /\ forwarded' = [forwarded EXCEPT ![Len(forwarded)] = @ \o line]
               ELSE UNCHANGED <<fs, forwarded>>
            /\ UNCHANGED <<appendClosed, raisedBy>>
            /\ IF ~Falsy(line) /\ Contains(line, stop_pattern)
               THEN /\ exitCause' = "match"
                    /\ pc' = "loop"
                    /\ i' = i + 1
                    /\ reads' = reads
                    /\ IF UseStorage
                       THEN /\ out' = close(Storage).out
                            /\ handles' = close(Storage).handles
                       ELSE UNCHANGED <<out, handles>>
               ELSE /\ reads < MaxReads
                    /\ reads' = reads + 1
                    /\ UNCHANGED <<exitCause, pc, i, out, handles>>
    /\ stopResults' = <<>>
    /\ written' = written \cup Changed(fs, fs')
    /\ CollectorFrame
    /\ UNCHANGED <<fs0, lastOp, phase, count, adb_call, procs,
                   progress_callback, attempt, stopRet, totalStarts,
                   startedSinceStop, cbLog, created, calls, warmup>>

\* _collect returns: collect goes on to the recorded run, or returns
Return ==
    /\ pc = "return"
    /\ IF phase = "warmup"
       THEN /\ phase' = "record"
            /\ pc' = "start_logcat"
            /\ warmup' = [iterations |-> i, logcat |-> adb_call,
                          started |-> startedSinceStop, live |-> Live]
       ELSE /\ phase' = phase
            /\ pc' = "done"
            /\ warmup' = warmup
    /\ stopResults' = <<>>
    /\ CollectorFrame
    /\ UNCHANGED <<out, handles, fs, fs0, lastOp, count, i, adb_call, procs,
                   progress_callback, attempt, stopRet, out_line, reads,
                   iterTrace, totalStarts, startedSinceStop, cbLog, created,
                   forwarded, appendClosed, exitCause, raisedBy, calls,
                   written>>

\* Environment: the logcat subprocess exits by itself (the device went away)
LogcatExits ==
    /\ pc \in {"loop", "stop_task", "clean_logcat", "start_task", "read"}
    /\ Running(adb_call)
    /\ procs' = [procs EXCEPT ![adb_call] = "exited"]
    /\ CollectorFrame
    /\ UNCHANGED <<out, handles, fs, fs0, lastOp, pc, phase, count, i,
                   adb_call, progress_callback, attempt, stopRet, out_line,
                   reads, iterTrace, totalStarts, startedSinceStop, cbLog,
                   created, forwarded, appendClosed, exitCause, stopResults,
                   raisedBy, calls, warmup, written>>

\* The directory main starts in: a stale log of an earlier run, another file
InitDirs ==
    LET stale == FileName(DefaultPrefix, 7)
        other == <<"r", ".", "t">>
    IN  { [f \in {stale, other} |-> <<"o", "\n">>] }

Init ==
    /\ name_prefix = DefaultPrefix
    /\ out = NoFile
    /\ handles = {}
    /\ fs \in InitDirs
    /\ listing = <<>>
    /\ fs0 = fs
    /\ lastOp = "none"
    /\ pc = "main"
    /\ phase = "warmup"
    /\ count \in Counts
    /\ i = 0
    /\ adb_call = 0
    /\ procs = [p \in {} |-> "running"]
    /\ progress_callback = FALSE
    /\ attempt = 0
    /\ stopRet = "restart"
    /\ out_line = NoneLine
    /\ reads = 0
    /\ iterTrace = <<>>
    /\ totalStarts = 0
    /\ startedSinceStop = FALSE
    /\ cbLog = <<>>
    /\ created = <<>>
    /\ forwarded = <<>>
    /\ appendClosed = FALSE
    /\ exitCause = "none"
    /\ stopResults = <<>>
    /\ raisedBy = "none"
    /\ calls = 0
    /\ warmup = NoWarmup
    /\ written = {}
    /\ dp_data = <<>>
    /\ dp_raised = FALSE
    /\ dp_prev = <<>>
    /\ an_input = <<>>
    /\ report = <<>>

Next ==
    \/ SetProgressCallback
    \/ NewLogStorage
    \/ Collect
    \/ StartLogcat
    \/ LoopHead
    \/ StopAttempt
    \/ CleanLogcat
    \/ StartApp
    \/ \E line \in ReadOutcomes : ReadLine(line)
    \/ Return
    \/ LogcatExits

Spec == Init /\ [][Next]_vars


\* ------------------------------------------------- claims: LogCollector
Range(seq) == {seq[n] : n \in 1..Len(seq)}

IsPrefix(s, t) == Len(s) <= Len(t) /\ \A n \in 1..Len(s) : s[n] = t[n]

EndsWith(s, t) ==
    Len(t) <= Len(s) /\ \A n \in 1..Len(t) : s[Len(s) - Len(t) + n] = t[n]

\* An index below 1000 written with three digits
ThreeDigits(n) ==
    <<DigitChar(n \div 100), DigitChar((n \div 10) % 10), DigitChar(n % 10)>>

IndexedName(n) == name_prefix \o ThreeDigits(n) \o <<".", "l", "o", "g">>

InIteration ==
    pc \in {"stop_task", "clean_logcat", "start_task", "read"} /\ stopRet = "restart"

Matches(line) == ~Falsy(line) /\ Contains(line, stop_pattern)

LogcatExited == adb_call # 0 /\ procs[adb_call] = "exited"

\* The commands and reads of the iteration, without the progress callback
Commands == SelectSeq(iterTrace, LAMBDA e : e # "progress")

\* C2: in the recorded run iteration i opens '<prefix><i as 3 digits>.log',
\* the lines forwarded in iteration i are that file's content and no other
\* file is touched; a completed run has created exactly the files 0..count-1.
C2_FilePerIteration ==
    /\ Len(forwarded) = Len(created)
    /\ phase = "warmup" => created = <<>>
    /\ \A j \in 1..Len(created) :
          /\ created[j] = IndexedName(j - 1)
          /\ created[j] \in DOMAIN fs
          /\ fs[created[j]] = forwarded[j]
    /\ written \subseteq Range(created)
    /\ (phase = "record" /\ pc = "read") =>
          (Len(created) = i + 1 /\ out = IndexedName(i))
    /\ (phase = "record" /\ pc = "loop") => Len(created) = i
    /\ pc = "done" => Len(created) = count

\* C2 witness: a completed run of two iterations whose first file holds
\* lines and whose second file is empty, the stream having ended
C2_Witness ==
    /\ pc = "done"
    /\ count = 2
    /\ created = <<IndexedName(0), IndexedName(1)>>
    /\ fs[IndexedName(0)] # <<>>
    /\ fs[IndexedName(1)] = <<>>

\* C3: the read loop is left only after a line matching the stop pattern or
\* after an empty read with the logcat process exited; nothing is read after
\* the matching line; the matching line has been forwarded to the storage.
C3_LoopStopsOnMatchOrEnd ==
    /\ exitCause # "none" =>
          (Matches(out_line) \/ (Falsy(out_line) /\ LogcatExited))
    /\ pc = "read" => ~Matches(out_line)
    /\ (exitCause = "match" /\ UseStorage) =>
          EndsWith(forwarded[Len(forwarded)], out_line)

\* C4: in every iteration the commands are force-stop attempt(s), one log
\* clear, one start, and only then reads; a _collect that returns has issued
\* one start per iteration.
C4_RestartBeforeRead ==
    /\ (InIteration \/ pc = "loop") =>
          IsPrefix(Commands, <<"force-stop", "logcat -c", "am start", "readline">>)
    /\ (InIteration /\ pc = "clean_logcat") => Commands = <<"force-stop">>
    /\ (InIteration /\ pc = "start_task") => Commands = <<"force-stop", "logcat -c">>
    /\ pc = "read" => Len(Commands) >= 3
    /\ pc = "read" => totalStarts = i + 1
    /\ pc = "loop" => totalStarts = i
    /\ pc = "return" => totalStarts = Limit
    /\ pc = "done" => totalStarts = count

\* C4 witness: a completed recorded run of two iterations, the second begun
\* after the log stream had ended (its file stayed empty)
C4_Witness ==
    /\ pc = "done"
    /\ count = 2
    /\ totalStarts = 2
    /\ Len(created) = 2
    /\ forwarded[2] = <<>>

\* C5: stop_task makes between one and five force-stop attempts, none after
\* the first success, and lets no exception out; after five failures
\* restart_task still goes on to start the app.
C5_BoundedRetry ==
    /\ Len(stopResults) <= StopAttempts
    /\ \A n \in 1..(Len(stopResults) - 1) : ~stopResults[n]
    /\ pc = "stop_task" => Len(stopResults) = attempt
    /\ pc \in {"clean_logcat", "start_task", "return"} =>
          /\ Len(stopResults) >= 1
          /\ stopResults[Len(stopResults)] \/ Len(stopResults) = StopAttempts
    /\ raisedBy # "stop_task"

\* C5 witness: the app has been started after five failed force-stops
C5_Witness ==
    /\ pc = "read"
    /\ startedSinceStop
    /\ Len(stopResults) = StopAttempts
    /\ \A n \in 1..Len(stopResults) : ~stopResults[n]

\* C8: the warm-up makes exactly 5 iterations, touches no file and calls no
\* callback; the recorded run starts after the warm-up has stopped logcat and
\* force-stopped the app; in it the callback is called with 0, 1, ..,
\* count-1, once per iteration, before the restart.
C8_WarmupThenRecord ==
    /\ phase = "warmup" => (created = <<>> /\ cbLog = <<>> /\ written = {})
    /\ phase = "record" =>
          warmup = [iterations |-> WarmupCount, logcat |-> 0,
                    started |-> FALSE, live |-> {}]
    /\ ~progress_callback => cbLog = <<>>
    /\ cbLog = [n \in 1..Len(cbLog) |-> n - 1]
    /\ (progress_callback /\ phase = "record") =>
          /\ pc = "loop" => Len(cbLog) = i
          /\ InIteration => (Len(cbLog) = i + 1 /\ iterTrace[1] = "progress")
          /\ pc \in {"return", "done"} => Len(cbLog) = count

\* C8 witness: a completed run with a callback, called with 0 and then 1
C8_Witness ==
    /\ pc = "done"
    /\ progress_callback
    /\ cbLog = <<0, 1>>
    /\ warmup.iterations = WarmupCount

\* C9: the storage holds at most one file open, append is never called with
\* no file open, also when a read raises, and a _collect with a storage that
\* returns leaves no file open.
C9_OneOpenFile ==
    /\ Cardinality(handles) <= 1
    /\ handles = (IF out = NoFile THEN {} ELSE {out})
    /\ ~appendClosed
    /\ (phase = "record" /\ pc \in {"return", "done"}) => out = NoFile

\* C9 witness: a read raised, append was called with the iteration's file
\* open, and the second iteration had been reached
C9_Witness ==
    /\ raisedBy = "append"
    /\ out_line = NoneLine
    /\ i = 1
    /\ out = IndexedName(1)

\* C10: at most one logcat subprocess is live, and when _collect returns
\* _adb_call is None, no subprocess is live and a force-stop attempt has
\* followed the last app start.
C10_OneLogcat ==
    /\ Cardinality(Live) <= 1
    /\ Live \subseteq {adb_call}
    /\ pc = "return" =>
          /\ adb_call = 0
          /\ Live = {}
          /\ stopResults # <<>>
          /\ ~startedSinceStop
    /\ pc = "done" => (adb_call = 0 /\ Live = {} /\ ~startedSinceStop)

\* C10 witness: a second collect call, made after an exception had left the
\* first with logcat running, returns from its recorded run
C10_Witness ==
    /\ calls = 2
    /\ pc = "return"
    /\ phase = "record"
    /\ totalStarts = 2


\* ------------------------------------------- LogStorage on its own
\* Prefixes a caller can pass: the default, a hidden one, one with "?",
\* one with "[..]"
Prefixes == { DefaultPrefix, <<".">>, <<"l", "?">>, <<"l", "[", "0", "]">> }

\* Files the directory can hold before LogStorage is constructed
DirNames ==
    { <<"l", "_", "0">>,            \* a log of the default prefix
      <<"l", "?", "0">>,            \* a log of the prefix "l?"
      <<"l", "[", "0", "]", "0">>,  \* a log of the prefix "l[0]"
      <<"l", "0", "0">>,
      <<".", "l", "_">>,            \* a hidden file
      <<"r">> }

OldContent == <<"o", "\n">>

Indexes == 0..MaxIndex

\* LogStorage(name_prefix)
StorageNew ==
    /\ lastOp = "none"
    /\ LET st == LogStorage_init(Storage, name_prefix)
       IN  /\ out' = st.out
           /\ handles' = st.handles
           /\ fs' = st.fs
    /\ fs0' = fs
    /\ lastOp' = "LogStorage"
    /\ UNCHANGED <<name_prefix, listing, collectorVars, providerVars, analyzerVars>>

\* log_storage.open_index(index)
StorageOpenIndex(index) ==
    /\ lastOp # "none"
    /\ LET st == open_index(Storage, name_prefix, index)
       IN  /\ out' = st.out
           /\ handles' = st.handles
           /\ fs' = st.fs
    /\ lastOp' = "open_index"
    /\ UNCHANGED <<name_prefix, listing, fs0, collectorVars, providerVars, analyzerVars>>

\* log_storage.append(line) with a file open (with none, write raises)
StorageAppend(line) ==
    /\ lastOp # "none"
    /\ out # NoFile
    /\ Len(fs[out]) < MaxFileLen
    /\ fs' = append(Storage, line).fs
    /\ lastOp' = "append"
    /\ UNCHANGED <<name_prefix, out, handles, listing, fs0, collectorVars,
                   providerVars, analyzerVars>>

\* log_storage.close()
StorageClose ==
    /\ lastOp # "none"
    /\ out' = close(Storage).out
    /\ handles' = close(Storage).handles
    /\ lastOp' = "close"
    /\ UNCHANGED <<name_prefix, fs, listing, fs0, collectorVars, providerVars,
                   analyzerVars>>

InitIdle ==
    /\ pc = "main"
    /\ phase = "warmup"
    /\ count = 0
    /\ i = 0
    /\ adb_call = 0
    /\ procs = [p \in {} |-> "running"]
    /\ progress_callback = FALSE
    /\ attempt = 0
    /\ stopRet = "restart"
    /\ out_line = NoneLine
    /\ reads = 0
    /\ iterTrace = <<>>
    /\ totalStarts = 0
    /\ startedSinceStop = FALSE
    /\ cbLog = <<>>
    /\ created = <<>>
    /\ forwarded = <<>>
    /\ appendClosed = FALSE
    /\ exitCause = "none"
    /\ stopResults = <<>>
    /\ raisedBy = "none"
    /\ calls = 0
    /\ warmup = NoWarmup
    /\ written = {}

InitStorage ==
    /\ name_prefix \in Prefixes
    /\ out = NoFile
    /\ handles = {}
    /\ \E names \in SUBSET DirNames :
          /\ Cardinality(names) <= MaxFiles
          /\ fs = [f \in names |-> OldContent]
    /\ listing = <<>>
    /\ fs0 = fs
    /\ lastOp = "none"
    /\ InitIdle
    /\ dp_data = <<>>
    /\ dp_raised = FALSE
    /\ dp_prev = <<>>
    /\ an_input = <<>>
    /\ report = <<>>

NextStorage ==
    \/ StorageNew
    \/ \E index \in Indexes : StorageOpenIndex(index)
    \/ \E line \in LogLines : StorageAppend(line)
    \/ StorageClose

SpecStorage == InitStorage /\ [][NextStorage]_vars

\* C1: right after LogStorage(prefix) no file whose name starts with prefix
\* exists, no file is open, and every file whose name does not start with
\* prefix is as it was.
C1_PrefixFilesRemoved ==
    lastOp = "LogStorage" =>
        /\ \A f \in DOMAIN fs : ~StartsWith(f, name_prefix)
        /\ out = NoFile
        /\ \A f \in DOMAIN fs0 :
              ~StartsWith(f, name_prefix) => (f \in DOMAIN fs /\ fs[f] = fs0[f])
        /\ DOMAIN fs \subseteq DOMAIN fs0


\* ---------------------------------------------------------- DataProvider
EmptyDict == [k \in {} |-> <<>>]    \* {}

NumChars == {"0", "1", "2", "3", "4", "5", "6", "7", "8", "9", "."}

DigitVal(c) == CHOOSE d \in 0..9 : DigitChar(d) = c

\* The regular expression of collect, matched at position b with the first
\* group ending before position e: "[Performance]" (one symbol of the
\* alphabet), " ", (.*), " ", ([0-9\.]+), " ms".  The position after the
\* number holds " ", so the number is the whole run of [0-9.] after e.
NumberEnd(line, e) ==
    LET ends == {f \in (e + 1)..(Len(line) - 3) :
                    /\ \A n \in (e + 1)..f : line[n] \in NumChars
                    /\ line[f + 1] = " "
                    /\ line[f + 2] = "m"
                    /\ line[f + 3] = "s"}
    IN  IF ends = {} THEN 0 ELSE CHOOSE f \in ends : TRUE

MatchAt(line, b, e) ==
    /\ b + 2 <= e
    /\ e <= Len(line)
    /\ line[b] = "[Performance]"
    /\ line[b + 1] = " "
    /\ \A n \in (b + 2)..(e - 1) : line[n] # "\n"
    /\ line[e] = " "
    /\ NumberEnd(line, e) # 0

\* pattern.search(line): the leftmost start, and from it the longest first
\* group; <<>> for no match, else <<group(1), group(2)>>
PerfSearch(line) ==
    LET starts == {b \in 1..Len(line) : \E e \in 1..Len(line) : MatchAt(line, b, e)}
    IN  IF starts = {} THEN <<>>
        ELSE LET b == CHOOSE x \in starts : \A y \in starts : x <= y
                 es == {e \in 1..Len(line) : MatchAt(line, b, e)}
                 e == CHOOSE x \in es : \A y \in es : y <= x
             IN  <<SubSeq(line, b + 2, e - 1),
                   SubSeq(line, e + 1, NumberEnd(line, e))>>

\* float(text) raises ValueError unless text has a digit and at most one "."
FloatOk(text) ==
    /\ \E n \in 1..Len(text) : text[n] # "."
    /\ Cardinality({n \in 1..Len(text) : text[n] = "."}) <= 1

RECURSIVE IntOf(_)
IntOf(digits) ==
    IF digits = <<>> THEN 0
    ELSE 10 * IntOf(SubSeq(digits, 1, Len(digits) - 1)) + DigitVal(digits[Len(digits)])

RECURSIVE StripZeros(_)
StripZeros(frac) ==
    IF frac # <<>> /\ frac[Len(frac)] = "0"
    THEN StripZeros(SubSeq(frac, 1, Len(frac) - 1))
    ELSE frac

\* float(text) as the exact decimal <<m, d>> = m / 10^d, d least: "1", "01"
\* and "1.0" are the same float
Float(text) ==
    LET dots == {n \in 1..Len(text) : text[n] = "."}
        dot == IF dots = {} THEN Len(text) + 1 ELSE CHOOSE n \in dots : TRUE
        whole == SubSeq(text, 1, dot - 1)
        frac == StripZeros(SubSeq(text, dot + 1, Len(text)))
    IN  <<IntOf(whole \o frac), Len(frac)>>

\* "for line in file": the text cut after every "\n"
RECURSIVE FileLines(_)
FileLines(text) ==
    IF text = <<>> THEN <<>>
    ELSE LET ends == {n \in 1..Len(text) : text[n] = "\n"}
             cut == IF ends = {} THEN Len(text)
                    ELSE CHOOSE n \in ends : \A k \in ends : n <= k
         IN  <<SubSeq(text, 1, cut)>> \o FileLines(SubSeq(text, cut + 1, Len(text)))

\* The body of "for line in file" for one line: acc is [data, raised]
ScanLine(acc, line) ==
    LET found == PerfSearch(line)
    IN  IF acc.raised \/ found = <<>> THEN acc
        ELSE IF ~FloatOk(found[2]) THEN [acc EXCEPT !.raised = TRUE]
        ELSE LET key == found[1]
                 value == Float(found[2])
             IN  [acc EXCEPT !.data =
                     IF key \in DOMAIN acc.data
                     THEN [acc.data EXCEPT ![key] = Append(@, value)]
                     ELSE Put(acc.data, key, <<value>>)]

RECURSIVE ScanLines(_, _)
ScanLines(acc, lines) ==
    IF lines = <<>> THEN acc
    ELSE ScanLines(ScanLine(acc, Head(lines)), Tail(lines))

\* The loop over glob.glob(..): acc is [data, raised, self_data]; after each
\* file self._data = data, the very dict the later files go on filling
RECURSIVE ScanFiles(_, _, _)
ScanFiles(acc, dir, names) ==
    IF names = <<>> \/ acc.raised THEN acc
    ELSE LET r == ScanLines([data |-> acc.data, raised |-> FALSE],
                            FileLines(dir[Head(names)]))
             aliased == acc.assigned \/ ~r.raised
         IN  ScanFiles([data |-> r.data, raised |-> r.raised, assigned |-> aliased],
                       dir, Tail(names))

\* glob.glob in the order the directory lists its entries
GlobList(dir, order, prefix) ==
    SelectSeq(order, LAMBDA f : f \in Glob(DOMAIN dir, prefix))

\* DataProvider.collect: [data |-> self._data afterwards, raised]
DataProvider_collect(dir, order, prefix) ==
    LET r == ScanFiles([data |-> EmptyDict, raised |-> FALSE, assigned |-> FALSE],
                       dir, GlobList(dir, order, prefix))
    IN  [data |-> IF r.assigned THEN r.data ELSE EmptyDict, raised |-> r.raised]


\* Lines a log file can hold
PerfLines ==
    LET P == "[Performance]"
    IN  { <<P, " ", "k", " ", "1", " ", "m", "s", "\n">>,
          <<P, " ", "k", " ", "2", ".", "5", " ", "m", "s", "\n">>,
          <<P, " ", "j", " ", "1", ".", "0", " ", "m", "s", "\n">>,
          <<"a", "\n">>,
          <<P, " ", "k", " ", ".", " ", "m", "s", "\n">> }

RECURSIVE Texts(_)
Texts(n) ==
    IF n = 0 THEN {<<>>}
    ELSE Texts(n - 1) \cup {t \o l : t \in Texts(n - 1), l \in PerfLines}

\* Files the directory can hold when DataProvider runs
LogNames ==
    { <<"l", "_", "0">>, <<"l", "_", "1">>, <<"l", "[", "0", "]", "0">>,
      <<"l", "0", "0">> }

ProviderPrefixes == { DefaultPrefix, <<"l", "[", "0", "]">> }

Orders(S) ==
    {o \in [1..Cardinality(S) -> S] : \A a, b \in DOMAIN o : a # b => o[a] # o[b]}

\* data_provider.collect()
ProviderCollect ==
    /\ LET r == DataProvider_collect(fs, listing, name_prefix)
       IN  /\ dp_data' = r.data
           /\ dp_raised' = r.raised
    /\ dp_prev' = IF lastOp = "DataProvider.collect" /\ ~dp_raised
                  THEN <<dp_data>> ELSE <<>>
    /\ lastOp' = "DataProvider.collect"
    /\ UNCHANGED <<name_prefix, out, handles, fs, listing, fs0, collectorVars,
                   analyzerVars>>

InitProvider ==
    /\ name_prefix \in ProviderPrefixes
    /\ out = NoFile
    /\ handles = {}
    /\ \E names \in SUBSET LogNames :
          /\ Cardinality(names) <= MaxFiles
          /\ fs \in [names -> Texts(MaxLines)]
          /\ listing \in Orders(names)
    /\ fs0 = fs
    /\ lastOp = "none"
    /\ InitIdle
    /\ dp_data = EmptyDict
    /\ dp_raised = FALSE
    /\ dp_prev = <<>>
    /\ an_input = <<>>
    /\ report = <<>>

NextProvider == ProviderCollect

SpecProvider == InitProvider /\ [][NextProvider]_vars

\* The result the claim describes: the values of the matching lines of the
\* files whose name starts with the prefix, in the order read
PrefixList == SelectSeq(listing, LAMBDA f : StartsWith(f, name_prefix))

ExpectedData ==
    ScanFiles([data |-> EmptyDict, raised |-> FALSE, assigned |-> FALSE],
              fs, PrefixList).data

\* C6: after collect() completes, data() holds per key the values of the
\* matching lines of all files whose name starts with the prefix, in the
\* order read, no key has an empty list, and a repeated collect() gives an
\* equal result.
C6_ValuesByKey ==
    (lastOp = "DataProvider.collect" /\ ~dp_raised) =>
        /\ dp_data = ExpectedData
        /\ \A k \in DOMAIN dp_data : dp_data[k] # <<>>
        /\ dp_prev # <<>> => dp_prev[1] = dp_data


\* ---------------------------------------------------------- DataAnalyzer
RECURSIVE Pow10(_)
Pow10(d) == IF d = 0 THEN 1 ELSE 10 * Pow10(d - 1)

\* a <= b for the floats <<m, d>> = m / 10^d
LessEq(a, b) == a[1] * Pow10(b[2]) <= b[1] * Pow10(a[2])
Less(a, b) == ~LessEq(b, a)

\* sorted(data): ascending, equal values in their order
RECURSIVE Sorted(_)
Sorted(data) ==
    IF data = <<>> THEN <<>>
    ELSE LET rest == Sorted(SubSeq(data, 1, Len(data) - 1))
             v == data[Len(data)]
             k == Cardinality({n \in 1..Len(rest) : LessEq(rest[n], v)})
         IN  SubSeq(rest, 1, k) \o <<v>> \o SubSeq(rest, k + 1, Len(rest))

\* seq[k] of Python: a negative k counts from the end
PyIndex(seq, k) == IF k < 0 THEN seq[Len(seq) + k + 1] ELSE seq[k + 1]

\* int(math.ceil(size * percentile)) for percentile = pct / 100.  The float
\* product rounds to the exact one whenever that is an integer (the errors
\* of 0.7, 0.8, 0.9 and 0.95 are below half an ulp of the product), so the
\* ceiling is that of the exact product.
CeilProduct(size, pct) == (size * pct + 99) \div 100

\* Mutant of _percentile: int(size * percentile), without ceil and "- 1"
percentile_floor(data, pct) ==
    PyIndex(Sorted(data), (Len(data) * pct) \div 100)

\* DataAnalyzer._percentile
percentile(data, pct) ==
    PyIndex(Sorted(data), CeilProduct(Len(data), pct) - 1)

\* min(values), max(values)
MinOf(values) ==
    CHOOSE v \in Range(values) : \A w \in Range(values) : LessEq(v, w)
MaxOf(values) ==
    CHOOSE v \in Range(values) : \A w \in Range(values) : LessEq(w, v)

\* Code points of the characters keys are made of
CharCode(c) ==
    CASE c = " " -> 32
      [] c = "." -> 46
      [] c \in {"0", "1", "2", "3", "4", "5", "6", "7", "8", "9"} -> 48 + DigitVal(c)
      [] c = "[Performance]" -> 91
      [] c = "a" -> 97
      [] c = "j" -> 106
      [] c = "k" -> 107
      [] c = "m" -> 109
      [] c = "s" -> 115

\* a < b for strings
RECURSIVE StrLess(_, _)
StrLess(a, b) ==
    IF b = <<>> THEN FALSE
    ELSE IF a = <<>> THEN TRUE
    ELSE IF Head(a) = Head(b) THEN StrLess(Tail(a), Tail(b))
    ELSE CharCode(Head(a)) < CharCode(Head(b))

\* sorted(data.keys())
RECURSIVE SortedKeys(_)
SortedKeys(keys) ==
    IF keys = {} THEN <<>>
    ELSE LET k == CHOOSE x \in keys : \A y \in keys \ {x} : StrLess(x, y)
         IN  <<k>> \o SortedKeys(keys \ {k})

RECURSIVE SumScaled(_, _)
SumScaled(values, d) ==
    IF values = <<>> THEN 0
    ELSE Head(values)[1] * Pow10(d - Head(values)[2]) + SumScaled(Tail(values), d)

RECURSIVE SumSquares(_, _)
SumSquares(values, d) ==
    IF values = <<>> THEN 0
    ELSE LET x == Head(values)[1] * Pow10(d - Head(values)[2])
         IN  x * x + SumSquares(Tail(values), d)

\* One row of the report.  mean is the fraction <<sum, n>> of the values
\* scaled by 10^d, variance (stdev squared) the fraction
\* <<n * sum of squares - sum^2, n * (n - 1)>> of the same, 0 for one value;
\* the numbers are printed with '{:.03f}'.
Row(key, values) ==
    LET n == Len(values)
        d == CHOOSE x \in {v[2] : v \in Range(values)} :
                 \A y \in {v[2] : v \in Range(values)} : y <= x
        sum == SumScaled(values, d)
    IN  [key |-> key,
         scale |-> d,
         mean |-> <<sum, n>>,
         variance |-> IF n > 1
                      THEN <<n * SumSquares(values, d) - sum * sum, n * (n - 1)>>
                      ELSE <<0, 1>>,
         relative_defined |-> (sum # 0),
         min |-> MinOf(values),
         max |-> MaxOf(values),
         percentile_70 |-> percentile(values, 70),
         percentile_80 |-> percentile(values, 80),
         percentile_90 |-> percentile(values, 90),
         percentile_95 |-> percentile(values, 95)]

\* data_analyzer.analyze(data_provider)
Analyze ==
    /\ report' = LET keys == SortedKeys(DOMAIN an_input)
                 IN  [n \in 1..Len(keys) |-> Row(keys[n], an_input[keys[n]])]
    /\ lastOp' = "analyze"
    /\ UNCHANGED <<name_prefix, out, handles, fs, listing, fs0, collectorVars,
                   providerVars, an_input>>

\* Values float(match.group(2)) can give: 0.5 and 1.0
SampleValues == {<<5, 1>>, <<1, 0>>}

RECURSIVE Lists(_)
Lists(n) ==
    IF n = 0 THEN {<<>>}
    ELSE Lists(n - 1) \cup {Append(l, v) : l \in Lists(n - 1), v \in SampleValues}

\* What data_provider.data() can hold: a key with 1..MaxValues values and,
\* with it or not, a second key with one value
AnalyzerInputs ==
    LET long == Lists(MaxValues) \ {<<>>}
    IN  {[k \in {<<"k">>} |-> l] : l \in long}
        \cup {[k \in {<<"k">>, <<"j">>} |-> IF k = <<"k">> THEN l ELSE <<v>>] :
                 l \in long, v \in SampleValues}

InitAnalyzer ==
    /\ name_prefix = DefaultPrefix
    /\ out = NoFile
    /\ handles = {}
    /\ fs = [f \in {} |-> <<>>]
    /\ listing = <<>>
    /\ fs0 = fs
    /\ lastOp = "none"
    /\ InitIdle
    /\ dp_data = EmptyDict
    /\ dp_raised = FALSE
    /\ dp_prev = <<>>
    /\ an_input \in AnalyzerInputs \cup {EmptyDict}
    /\ report = <<>>

NextAnalyzer == Analyze

SpecAnalyzer == InitAnalyzer /\ [][NextAnalyzer]_vars

\* The least r with r >= n * pct / 100
NearestRank(n, pct) ==
    CHOOSE r \in 0..n : 100 * r >= n * pct /\ 100 * (r - 1) < n * pct

\* v stands at 1-based rank r among the values in ascending order
AtRank(values, r, v) ==
    /\ v \in Range(values)
    /\ Cardinality({n \in 1..Len(values) : Less(values[n], v)}) < r
    /\ r <= Cardinality({n \in 1..Len(values) : LessEq(values[n], v)})

Percentiles == {70, 80, 90, 95}

Reported(row, pct) ==
    CASE pct = 70 -> row.percentile_70
      [] pct = 80 -> row.percentile_80
      [] pct = 90 -> row.percentile_90
      [] pct = 95 -> row.percentile_95

\* C7: for every key with n >= 1 values and every p in {70, 80, 90, 95} the
\* reported percentile is the value at rank ceil(n * p / 100) of the values in
\* ascending order, that rank is in 1..n, and
\* min <= perc_70 <= perc_80 <= perc_90 <= perc_95 <= max.
C7_NearestRank ==
    lastOp = "analyze" =>
        /\ Len(report) = Cardinality(DOMAIN an_input)
        /\ \A n \in 1..Len(report) :
              LET row == report[n]
                  values == an_input[row.key]
              IN  /\ \A pct \in Percentiles :
                        /\ NearestRank(Len(values), pct) \in 1..Len(values)
                        /\ AtRank(values, NearestRank(Len(values), pct),
                                  Reported(row, pct))
                  /\ LessEq(row.min, row.percentile_70)
                  /\ LessEq(row.percentile_70, row.percentile_80)
                  /\ LessEq(row.percentile_80, row.percentile_90)
                  /\ LessEq(row.percentile_90, row.percentile_95)
                  /\ LessEq(row.percentile_95, row.max)

\* C7 witness: a key with ten values whose 70th and 80th percentiles differ
\* (ranks 7 and 8)
C7_Witness ==
    /\ lastOp = "analyze"
    /\ \E n \in 1..Len(report) :
          /\ Len(an_input[report[n].key]) = 10
          /\ Less(report[n].percentile_70, report[n].percentile_80)
          /\ report[n].percentile_95 = report[n].max

=============================================================================
